---- MODULE Spec2Model ----
(***************************************************************************)
(* A model of xtab (src/src/main.rs): the command line is parsed by clap,  *)
(* main() validates the input path, the output extension and the format,   *)
(* splits the three list arguments on commas and calls xtab(), which reads  *)
(* the input file into a DataFrame, builds the format-1 header row and      *)
(* writes it to the output file.                                            *)
(*                                                                          *)
(* Text is modelled as a sequence of one-character strings, so that         *)
(* split(','), ends_with(".csv") and format!("{}_{}") are computed.         *)
(***************************************************************************)
EXTENDS Integers, Sequences, FiniteSets, TLC

VARIABLES
    argv,               \* the command line handed to the process
    infile_fs,          \* the input path on disk: exists?, parses?, header, rows
    outfs,              \* the output path on disk: exists?, records
    outfs_init,         \* the output path on disk when the process started
    pc,                 \* position of the process
    args,               \* struct Args after Args::parse()
    row_headers,        \* main/xtab local
    col_headers,        \* main/xtab local
    cell_values,        \* main/xtab local
    format,             \* main/xtab local (i8)
    df,                 \* xtab local: the DataFrame
    header_row,         \* xtab local
    multiple_vals,      \* xtab local
    reportable_errors,  \* xtab local
    calls,              \* functions entered so far
    err,                \* the error message printed, "" if none
    exit_code           \* process exit status, -1 while running

vars == <<argv, infile_fs, outfs, outfs_init, pc, args, row_headers, col_headers,
          cell_values, format, df, header_row, multiple_vals, reportable_errors,
          calls, err, exit_code>>

----------------------------------------------------------------------------
(* Bounds of the model *)

MaxNames == 2       \* names in one comma-separated list argument
MaxRows == 2        \* data rows of the input table
MaxFormat == 5      \* largest in-range format code tried

(* format: u8 *)
U8Max == 255

----------------------------------------------------------------------------
(* Text *)

Comma == ","
Underscore == "_"
DotCsv == <<".", "c", "s", "v">>

\* str::ends_with
EndsWith(s, suffix) ==
    /\ Len(s) >= Len(suffix)
    /\ SubSeq(s, Len(s) - Len(suffix) + 1, Len(s)) = suffix

\* str::split(','): always at least one piece, empty pieces are kept
RECURSIVE Split(_)
Split(s) ==
    IF s = <<>> THEN << <<>> >>
    ELSE LET rest == Split(Tail(s))
         IN  IF Head(s) = Comma
             THEN << <<>> >> \o rest
             ELSE << <<Head(s)>> \o Head(rest) >> \o Tail(rest)

\* format!("{}_{}", a, b)
FormatUnderscore(a, b) == a \o <<Underscore>> \o b

\* the inverse of Split, used to build command lines
RECURSIVE JoinComma(_)
JoinComma(names) ==
    IF Len(names) = 0 THEN <<>>
    ELSE IF Len(names) = 1 THEN names[1]
    ELSE names[1] \o <<Comma>> \o JoinComma(Tail(names))

\* all sequences over S of length lo..hi
SeqsOf(S, lo, hi) == UNION {[1..n -> S] : n \in lo..hi}

----------------------------------------------------------------------------
(* Inputs *)

R == <<"r">>
C == <<"c">>
V == <<"v">>
Q == <<"q">>

\* output paths: "o.csv", ".csv", "o.txt", "csv"
OutPaths == {<<"o">> \o DotCsv, DotCsv, <<"o", ".", "t", "x", "t">>, <<"c", "s", "v">>}

\* --format values: 0..MaxFormat, the largest u8 and one past it
Formats == (0..MaxFormat) \cup {U8Max, U8Max + 1}

\* the input table: header r,c,v and up to MaxRows rows of three cells
CellVals == {<<"x">>, <<"y">>}
TableHeader == <<R, C, V>>
TableRows == SeqsOf([1..3 -> CellVals], 0, MaxRows)

MissingFile == [exists |-> FALSE, ok |-> FALSE, header |-> <<>>, rows |-> <<>>]
BadFile == [exists |-> TRUE, ok |-> FALSE, header |-> <<>>, rows |-> <<>>]
GoodFile(rows) == [exists |-> TRUE, ok |-> TRUE, header |-> TableHeader, rows |-> rows]
InFiles == {MissingFile, BadFile} \cup {GoodFile(rows) : rows \in TableRows}

NoOutFile == [exists |-> FALSE, records |-> <<>>]
OldOutFile == [exists |-> TRUE, records |-> << <<<<"o", "l", "d">>>> >>]
OutFiles == {NoOutFile, OldOutFile}

\* a list argument as typed: names joined by commas
ListArgs(names) == {JoinComma(ns) : ns \in SeqsOf(names, 1, MaxNames)}

\* a list option given once or twice (Vec<String>: one element per occurrence)
Occurrences(S) == SeqsOf(S, 1, 2)

\* command lines that vary the environment and the table
ArgvEnv ==
    [outfile : OutPaths, format : Formats,
     row : {<<R>>, <<Q>>}, col : {<<C>>}, val : {<<V>>, <<Q>>}]

\* command lines that vary the three list arguments
ArgvLists ==
    [outfile : {<<"o">> \o DotCsv}, format : {1},
     row : Occurrences(ListArgs({R, C})),
     col : {<<x>> : x \in ListArgs({R, C})},
     val : {<<x>> : x \in ListArgs({R, C})}]

NoArgs == [outfile |-> <<>>, row_headers |-> <<>>, col_headers |-> <<>>,
           values |-> <<>>, format |-> 0]
EmptyDF == [header |-> <<>>, rows |-> <<>>]

InitWith(argvs, infiles) ==
    /\ argv \in argvs
    /\ infile_fs \in infiles
    /\ outfs \in OutFiles
    /\ outfs_init = outfs
    /\ pc = "start"
    /\ args = NoArgs
    /\ row_headers = <<>>
    /\ col_headers = <<>>
    /\ cell_values = <<>>
    /\ format = 0
    /\ df = EmptyDF
    /\ header_row = <<>>
    /\ multiple_vals = FALSE
    /\ reportable_errors = FALSE
    /\ calls = {}
    /\ err = ""
    /\ exit_code = -1

Init == InitWith(ArgvEnv, InFiles)

InitLists ==
    \/ InitWith(ArgvLists, {GoodFile(<<>>)})
    \/ InitWith(ArgvEnv, {MissingFile, BadFile})

----------------------------------------------------------------------------
(* The program *)

\* std::process::exit(code) after printing msg
Exit(msg, code) ==
    /\ pc' = "exited"
    /\ err' = msg
    /\ exit_code' = code

\* clap: format: u8 rejects a value out of range; a Vec<String> option
\* collects one element per occurrence of the option, unsplit
ClapAccepts(a) == a.format \in 0..U8Max

ClapArgs(a) ==
    [outfile |-> a.outfile, row_headers |-> a.row, col_headers |-> a.col,
     values |-> a.val, format |-> a.format]

\* let args = Args::parse();
ArgsParse ==
    /\ pc = "start"
    /\ IF ClapAccepts(argv)
       THEN /\ args' = ClapArgs(argv)
            /\ pc' = "check_infile"
            /\ UNCHANGED <<err, exit_code>>
       ELSE /\ Exit("clap", 2)
            /\ UNCHANGED args
    /\ UNCHANGED <<argv, infile_fs, outfs, outfs_init, row_headers, col_headers,
                   cell_values, format, df, header_row, multiple_vals,
                   reportable_errors, calls>>

\* if !&infile.exists() { ...; exit(1) }
CheckInfile ==
    /\ pc = "check_infile"
    /\ IF infile_fs.exists
       THEN pc' = "check_outfile" /\ UNCHANGED <<err, exit_code>>
       ELSE Exit("infile", 1)
    /\ UNCHANGED <<argv, infile_fs, outfs, outfs_init, args, row_headers,
                   col_headers, cell_values, format, df, header_row,
                   multiple_vals, reportable_errors, calls>>

\* a variant that forgets the dot of the extension
OutfileOkNoDot(path) == EndsWith(path, <<"c", "s", "v">>)

\* outfile.ends_with(".csv")
OutfileOk(path) == EndsWith(path, DotCsv)

\* if !&outfile.ends_with(".csv") { ...; exit(1) }
CheckOutfile ==
    /\ pc = "check_outfile"
    /\ IF OutfileOk(args.outfile)
       THEN pc' = "split" /\ UNCHANGED <<err, exit_code>>
       ELSE Exit("outfile", 1)
    /\ UNCHANGED <<argv, infile_fs, outfs, outfs_init, args, row_headers,
                   col_headers, cell_values, format, df, header_row,
                   multiple_vals, reportable_errors, calls>>

\* args.row_headers[0].split(',').collect()
SplitFirst(v) == Split(v[1])

SplitLists ==
    /\ pc = "split"
    /\ row_headers' = SplitFirst(args.row_headers)
    /\ col_headers' = SplitFirst(args.col_headers)
    /\ cell_values' = SplitFirst(args.values)
    /\ pc' = "match_format"
    /\ UNCHANGED <<argv, infile_fs, outfs, outfs_init, args, format, df,
                   header_row, multiple_vals, reportable_errors, calls, err,
                   exit_code>>

\* a variant whose match has no rejecting upper arm
FormatAcceptedFromOne(f) == f >= 1

\* the arms of match args.format that yield a value
FormatAccepted(f) == f = 1

MatchFormat ==
    /\ pc = "match_format"
    /\ IF FormatAccepted(args.format)
       THEN /\ format' = args.format
            /\ pc' = "xtab"
            /\ UNCHANGED <<err, exit_code>>
       ELSE /\ Exit("format", 1)
            /\ UNCHANGED format
    /\ UNCHANGED <<argv, infile_fs, outfs, outfs_init, args, row_headers,
                   col_headers, cell_values, df, header_row, multiple_vals,
                   reportable_errors, calls>>

\* xtab(...): the flags, then read_csv(infile)
XtabRead ==
    /\ pc = "xtab"
    /\ multiple_vals' = FALSE
    /\ reportable_errors' = FALSE
    /\ calls' = calls \cup {"xtab", "read_csv"}
    /\ IF infile_fs.ok
       THEN /\ df' = [header |-> infile_fs.header, rows |-> infile_fs.rows]
            /\ pc' = "header"
            /\ UNCHANGED <<err, exit_code>>
       ELSE /\ Exit("read", 1)
            /\ UNCHANGED df
    /\ UNCHANGED <<argv, infile_fs, outfs, outfs_init, args, row_headers,
                   col_headers, cell_values, format, header_row>>

\* for i in 0..col_headers.len() { for j in 0..cell_values.len() { push } }
CrossHeaders(cols, vals) ==
    [k \in 1..(Len(cols) * Len(vals)) |->
        FormatUnderscore(cols[((k - 1) \div Len(vals)) + 1],
                         vals[((k - 1) % Len(vals)) + 1])]

\* a variant that pushes the crossed names before the row headers
HeaderRowCrossFirst(f, rows, cols, vals) ==
    IF f = 1 THEN CrossHeaders(cols, vals) \o rows ELSE <<>>

\* the header row built when format == 1; empty otherwise
HeaderRow(f, rows, cols, vals) ==
    IF f = 1 THEN rows \o CrossHeaders(cols, vals) ELSE <<>>

XtabHeader ==
    /\ pc = "header"
    /\ header_row' = HeaderRow(format, row_headers, col_headers, cell_values)
    /\ pc' = "write"
    /\ UNCHANGED <<argv, infile_fs, outfs, outfs_init, args, row_headers,
                   col_headers, cell_values, format, df, multiple_vals,
                   reportable_errors, calls, err, exit_code>>

\* csv::Writer::from_path(outfile).unwrap(); writer.write_record(&header_row).unwrap();
\* from_path creates or truncates the file, or fails and unwrap panics
XtabWrite ==
    /\ pc = "write"
    /\ calls' = calls \cup {"Writer::from_path"}
    /\ \E created \in BOOLEAN :
          IF created
          THEN /\ outfs' = [exists |-> TRUE, records |-> <<header_row>>]
               /\ pc' = "done"
               /\ exit_code' = 0
               /\ UNCHANGED err
          ELSE /\ Exit("panic", 101)
               /\ UNCHANGED outfs
    /\ UNCHANGED <<argv, infile_fs, outfs_init, args, row_headers, col_headers,
                   cell_values, format, df, header_row, multiple_vals,
                   reportable_errors>>

Next ==
    \/ ArgsParse
    \/ CheckInfile
    \/ CheckOutfile
    \/ SplitLists
    \/ MatchFormat
    \/ XtabRead
    \/ XtabHeader
    \/ XtabWrite

Spec == Init /\ [][Next]_vars

SpecLists == InitLists /\ [][Next]_vars

Terminated == pc \in {"done", "exited"}

TypeOK ==
    /\ pc \in {"start", "check_infile", "check_outfile", "split", "match_format",
               "xtab", "header", "write", "done", "exited"}
    /\ exit_code \in {-1, 0, 1, 2, 101}
    /\ multiple_vals \in BOOLEAN
    /\ reportable_errors \in BOOLEAN

----------------------------------------------------------------------------
(* The crosstab the documentation describes, for stating the properties *)

AllNames == row_headers \o col_headers \o cell_values

\* every requested column name is a column of the table read
NamesExist == \A k \in 1..Len(AllNames) : \E i \in 1..Len(df.header) : df.header[i] = AllNames[k]

IndexOf(h, name) == CHOOSE i \in 1..Len(h) : h[i] = name

\* the cells of one input row under the named columns
Project(row, names) == [k \in 1..Len(names) |-> row[IndexOf(df.header, names[k])]]

\* distinct projections in order of first appearance
RECURSIVE KeyOrder(_, _)
KeyOrder(rows, names) ==
    IF rows = <<>> THEN <<>>
    ELSE LET prev == KeyOrder(SubSeq(rows, 1, Len(rows) - 1), names)
             key == Project(rows[Len(rows)], names)
         IN  IF \E i \in 1..Len(prev) : prev[i] = key THEN prev ELSE Append(prev, key)

RECURSIVE JoinUnderscore(_)
JoinUnderscore(parts) ==
    IF Len(parts) = 0 THEN <<>>
    ELSE IF Len(parts) = 1 THEN parts[1]
    ELSE FormatUnderscore(parts[1], JoinUnderscore(Tail(parts)))

\* the format-1 column names for column keys cks and value columns vals
PivotColumns(cks, vals) ==
    [k \in 1..(Len(cks) * Len(vals)) |->
        JoinUnderscore(Append(cks[((k - 1) \div Len(vals)) + 1],
                              vals[((k - 1) % Len(vals)) + 1]))]

OutHeader == outfs.records[1]
OutData == Tail(outfs.records)

NoCell == <<"<", "n", "o", "n", "e", ">">>

\* the output cell of row key rk under the column of column key ck and value v
OutputCell(rk, ck, v) ==
    LET n == Len(row_headers)
        name == JoinUnderscore(Append(ck, v))
        rowsAt == {i \in 1..Len(OutData) :
                      Len(OutData[i]) >= n /\ SubSeq(OutData[i], 1, n) = rk}
        colsAt == {k \in (n + 1)..Len(OutHeader) : OutHeader[k] = name}
    IN  IF rowsAt = {} \/ colsAt = {} THEN NoCell
        ELSE LET i == CHOOSE x \in rowsAt : TRUE
                 k == CHOOSE x \in colsAt : TRUE
             IN  IF k <= Len(OutData[i]) THEN OutData[i][k] ELSE NoCell

\* input rows i < j with the same row key and column key, i the first such row
Collides(i, j) ==
    /\ i < j
    /\ Project(df.rows[i], row_headers) = Project(df.rows[j], row_headers)
    /\ Project(df.rows[i], col_headers) = Project(df.rows[j], col_headers)
    /\ \A h \in 1..(i - 1) :
          \/ Project(df.rows[h], row_headers) # Project(df.rows[i], row_headers)
          \/ Project(df.rows[h], col_headers) # Project(df.rows[i], col_headers)

\* every name of every occurrence of a list option, in order
RECURSIVE NamesOf(_)
NamesOf(occs) ==
    IF occs = <<>> THEN <<>> ELSE Split(Head(occs)) \o NamesOf(Tail(occs))

----------------------------------------------------------------------------
(* Properties *)

\* C1: a successful run on a table that has every requested column writes one
\* data row per distinct row-key tuple, in order of first appearance.
OneRowPerRowKey ==
    (pc = "done" /\ NamesExist) =>
        LET keys == KeyOrder(df.rows, row_headers)
        IN  /\ Len(OutData) = Len(keys)
            /\ \A i \in 1..Len(keys) :
                  /\ Len(OutData[i]) >= Len(row_headers)
                  /\ SubSeq(OutData[i], 1, Len(row_headers)) = keys[i]

\* C2: in format 1 the header after the row-key columns names one column per
\* distinct column-key tuple (first-seen order) and value column (caller
\* order), the tuple's values and the value name joined by underscores.
PivotHeaderFromColumnKeys ==
    (pc = "done" /\ NamesExist /\ format = 1) =>
        /\ Len(OutHeader) >= Len(row_headers)
        /\ SubSeq(OutHeader, Len(row_headers) + 1, Len(OutHeader))
              = PivotColumns(KeyOrder(df.rows, col_headers), cell_values)

\* C3: when input rows collide on (row key, column key), the completed run
\* has flagged the collision and the cell holds the first row's value for
\* every value column.
CollisionKeepsFirst ==
    (pc = "done" /\ NamesExist) =>
        \A i, j \in 1..Len(df.rows) :
            Collides(i, j) =>
                /\ multiple_vals
                /\ \A v \in 1..Len(cell_values) :
                      OutputCell(Project(df.rows[i], row_headers),
                                 Project(df.rows[i], col_headers), cell_values[v])
                          = Project(df.rows[i], <<cell_values[v]>>)[1]

\* C4: a requested name that is no column of the table read makes the run
\* fail: errors are flagged, the exit status is non-zero and the output file
\* is left as it was.
MissingColumnIsFatal ==
    (Terminated /\ infile_fs.ok /\ "read_csv" \in calls /\ ~NamesExist) =>
        /\ exit_code # 0
        /\ reportable_errors
        /\ outfs = outfs_init

\* C5: with a format outside 1..4 neither xtab nor read_csv nor the writer is
\* ever entered, the output file stays as it was, and the process ends with
\* an error message and a non-zero status.
InvalidFormatIsUsageError ==
    argv.format \notin 1..4 =>
        /\ calls = {}
        /\ outfs = outfs_init
        /\ pc # "done"
        /\ Terminated => (exit_code # 0 /\ err # "")

InvalidFormatRejected ==
    /\ pc = "exited"
    /\ argv.format \notin 1..4
    /\ argv.format <= U8Max
    /\ err = "format"
    /\ exit_code = 1

\* C6: with an existing input file and a .csv output path, every format in
\* 1..4 passes validation and reaches xtab.
FormatsOneToFourReachXtab ==
    (Terminated /\ infile_fs.exists /\ EndsWith(argv.outfile, DotCsv)
        /\ argv.format \in 1..4) => "xtab" \in calls

\* C7: when the input file is missing or unparsable, the output path does not
\* end in .csv or the format is rejected, the writer is never opened, the
\* output file stays as it was and the process ends with a non-zero status.
FatalBeforeWriterLeavesOutput ==
    (\/ ~infile_fs.exists
     \/ ~infile_fs.ok
     \/ ~EndsWith(argv.outfile, DotCsv)
     \/ argv.format \notin 1..4
     \/ err \in {"clap", "infile", "outfile", "format", "read"}) =>
        /\ "Writer::from_path" \notin calls
        /\ outfs = outfs_init
        /\ pc # "done"
        /\ Terminated => exit_code # 0

UnparsableInputKeepsOldOutput ==
    /\ pc = "exited"
    /\ err = "read"
    /\ exit_code = 1
    /\ outfs_init.exists
    /\ outfs = outfs_init

\* C8: for a row key and a column key that no input row pairs, every value
\* column's output cell is empty.
MissingCombinationIsEmpty ==
    (pc = "done" /\ NamesExist) =>
        LET rks == KeyOrder(df.rows, row_headers)
            cks == KeyOrder(df.rows, col_headers)
        IN  \A a \in 1..Len(rks), b \in 1..Len(cks) :
                (\A i \in 1..Len(df.rows) :
                    \/ Project(df.rows[i], row_headers) # rks[a]
                    \/ Project(df.rows[i], col_headers) # cks[b])
                => \A v \in 1..Len(cell_values) :
                      OutputCell(rks[a], cks[b], cell_values[v]) = <<>>

\* C9: the header written begins with the row-key names as xtab received
\* them, in order, and the crossed column_value names fill the rest.
RowKeysLeadHeader ==
    pc = "done" =>
        LET n == Len(row_headers)
        IN  /\ Len(outfs.records) >= 1
            /\ Len(OutHeader) = n + Len(col_headers) * Len(cell_values)
            /\ \A k \in 1..n : OutHeader[k] = row_headers[k]
            /\ \A k \in (n + 1)..Len(OutHeader) :
                  \E i \in 1..Len(col_headers), j \in 1..Len(cell_values) :
                      OutHeader[k] = FormatUnderscore(col_headers[i], cell_values[j])

TwoRowKeysWritten ==
    /\ pc = "done"
    /\ Len(row_headers) = 2
    /\ row_headers[1] # row_headers[2]
    /\ Len(OutHeader) > 2
    /\ OutHeader[1] = row_headers[1]
    /\ OutHeader[2] = row_headers[2]

\* C10: Args::parse yields, for each list option, the sequence of its
\* comma-separated names, and xtab receives exactly these sequences.
ListArgsParsedToNames ==
    /\ (pc # "start" /\ err # "clap") =>
          /\ args.row_headers = NamesOf(argv.row)
          /\ args.col_headers = NamesOf(argv.col)
          /\ args.values = NamesOf(argv.val)
    /\ "xtab" \in calls =>
          /\ row_headers = NamesOf(argv.row)
          /\ col_headers = NamesOf(argv.col)
          /\ cell_values = NamesOf(argv.val)

====
